---------------------------- MODULE Spec2Model ----------------------------
(***************************************************************************)
(* HubSpot OAuth2 integration (backend/integrations/hubspot.py).           *)
(*                                                                         *)
(* The model covers the three coroutines that share the Redis store:       *)
(* authorize_hubspot, oauth2callback_hubspot and get_hubspot_credentials.  *)
(* Every `await` on the store or on the token endpoint is a suspension     *)
(* point, so each coroutine is a process whose steps end at its awaits.    *)
(* Strings are sequences of one-character strings; a JSON object is a      *)
(* function from its keys to its values (json.dumps / json.loads of such   *)
(* an object are inverse to each other and only the object is kept).       *)
(*                                                                         *)
(* create_integration_item_metadata_object and get_items_hubspot do not    *)
(* touch the store; they are operators, applied to bounded inputs by the   *)
(* actions of a specification of their own (ItemsSpec).                    *)
(***************************************************************************)
EXTENDS Integers, Sequences, FiniteSets, TLC

(***************************************************************************)
(* Bounds of the model.                                                    *)
(***************************************************************************)
\* authorize_hubspot calls that may be in flight together
NumAuth == 2
\* oauth2callback_hubspot requests that may be in flight together
NumCb == 2
\* get_hubspot_credentials calls that may be in flight together
NumFc == 2

AuthProcs == 1..NumAuth
CbProcs == 1..NumCb
FcProcs == 1..NumFc

\* number of calls (of the three kinds together) made in one run
MaxCalls == 4

\* the <<org_id, user_id>> pairs callers act for: two whose ids contain the
\* key separator, and one with an empty user_id
Pairs == { <<<<"a", ":">>, <<"a">>>>,
           <<<<"a">>, <<":", "a">>>>,
           <<<<"a">>, <<>>>> }

(***************************************************************************)
(* urllib.parse.quote / urllib.parse.unquote                               *)
(***************************************************************************)
\* characters quote() leaves alone: letters, digits and "_.-~/"
SafeChars == {"a", "b", "t", "x", "A", "0", "1", "2", "3", "4", "5",
              "_", ".", "-", "~", "/"}

HexDigits == {"0", "1", "2", "3", "4", "5", "A", "a"}

\* the two hex digits quote() writes for a character outside SafeChars
PercentCode(c) ==
    CASE c = ":" -> <<"3", "A">>
      [] c = "%" -> <<"2", "5">>
      [] c = " " -> <<"2", "0">>
      [] OTHER   -> <<"3", "F">>

\* the character a pair of hex digits stands for (unquote is case-blind)
PercentChar(h1, h2) ==
    CASE h1 = "3" /\ h2 \in {"A", "a"} -> ":"
      [] h1 = "2" /\ h2 = "5" -> "%"
      [] h1 = "2" /\ h2 = "0" -> " "
      [] OTHER -> "?"

RECURSIVE quote(_)
quote(s) ==
    IF s = <<>> THEN <<>>
    ELSE (IF Head(s) \in SafeChars THEN <<Head(s)>>
          ELSE <<"%">> \o PercentCode(Head(s))) \o quote(Tail(s))

\* a variant that leaves percent escapes in place
unquote_keep(s) == s

RECURSIVE unquote(_)
unquote(s) ==
    IF s = <<>> THEN <<>>
    ELSE IF Head(s) = "%" /\ Len(s) >= 3 /\ s[2] \in HexDigits /\ s[3] \in HexDigits
         THEN <<PercentChar(s[2], s[3])>> \o unquote(SubSeq(s, 4, Len(s)))
         ELSE <<Head(s)>> \o unquote(Tail(s))

(***************************************************************************)
(* JSON objects and Python truthiness                                      *)
(***************************************************************************)
\* dict.get(key) on a missing key
None == <<"None">>

get(d, k) == IF k \in DOMAIN d THEN d[k] ELSE None

\* `not v` for a string or None
Falsy(v) == v = None \/ v = <<>>

\* a variant that never sees the mock flag
get_mock_never(d) == FALSE

\* state_data.get('mock', False)
get_mock(d) == IF "mock" \in DOMAIN d THEN d["mock"] ELSE FALSE

\* quote(json.dumps(obj)): the framing of the object survives the round
\* trip, its strings are quoted character by character
quote_json(d) ==
    [k \in DOMAIN d |-> IF k = "mock" THEN d[k] ELSE quote(d[k])]

\* json.loads(unquote(text)) of a text that frames an object
loads_unquote(e) ==
    [k \in DOMAIN e |-> IF k = "mock" THEN e[k] ELSE unquote(e[k])]

(***************************************************************************)
(* Store keys                                                              *)
(***************************************************************************)
\* f'hubspot_state:{org_id}:{user_id}'
state_key(org_id, user_id) ==
    <<"hubspot_state", ":">> \o org_id \o <<":">> \o user_id

\* f'hubspot_credentials:{org_id}:{user_id}'
credentials_key(org_id, user_id) ==
    <<"hubspot_credentials", ":">> \o org_id \o <<":">> \o user_id

(***************************************************************************)
(* The key-value store (redis_client): set with expiry, get, delete.       *)
(* A stored value is the text that was written, together with two history  *)
(* fields the program never reads: the pair the writer acted for and the   *)
(* process that wrote it.                                                  *)
(***************************************************************************)
\* get_value_redis on a key that is not there
EmptyDict == [k \in {} |-> <<>>]

Absent == [text |-> EmptyDict, owner |-> <<>>, by |-> <<>>]

get_value_redis(s, k) == IF k \in DOMAIN s THEN s[k] ELSE Absent

add_key_value_redis(s, k, v) ==
    [x \in DOMAIN s \cup {k} |-> IF x = k THEN v ELSE s[x]]

delete_key_redis(s, k) == [x \in DOMAIN s \ {k} |-> s[x]]

(***************************************************************************)
(* Values of the program                                                   *)
(***************************************************************************)
\* secrets.token_urlsafe(32): a fresh URL-safe string for every call
\* (the n-th call returns the n-th of them)
token_urlsafe(n) == <<"t", IF n = 1 THEN "1" ELSE IF n = 2 THEN "2"
                           ELSE IF n = 3 THEN "3" ELSE IF n = 4 THEN "4"
                           ELSE "5">>

\* a token no call of token_urlsafe returned
ForgedToken == <<"x">>

is_mock_mode == FALSE

mock_token_data ==
    [access_token |-> <<"mock_access_token">>,
     refresh_token |-> <<"mock_refresh_token">>,
     expires_in |-> <<"3600">>,
     token_type |-> <<"bearer">>]

\* bodies the token endpoint may answer with status 200
TokenBodies ==
    { [access_token |-> <<"A1">>, token_type |-> <<"bearer">>] }

\* outcomes of client.post(token_url, ...)
Responses ==
    { [kind |-> "status", status_code |-> 200, json |-> b] : b \in TokenBodies }
    \cup { [kind |-> "status", status_code |-> 400, json |-> EmptyDict],
           [kind |-> "RequestError", status_code |-> 0, json |-> EmptyDict] }

ErrOAuth == "OAuth error"
ErrMissing == "Missing code or state parameter"
ErrInvalidParam == "Invalid state parameter"
ErrInvalidData == "Invalid state data"
ErrExpired == "State expired or not found"
ErrMismatch == "State does not match"
ErrInvalidSaved == "Invalid saved state"
ErrExchange == "Token exchange failed"
ErrNetwork == "Network error during token exchange"
ErrNoCredentials == "No HubSpot credentials found. Please re-authenticate."
ErrInvalidCredentials == "Invalid credentials data"

StateErrors ==
    {ErrInvalidParam, ErrInvalidData, ErrExpired, ErrMismatch, ErrInvalidSaved}

(***************************************************************************)
(* State                                                                   *)
(***************************************************************************)
VARIABLES
    store,      \* the Redis store: key -> stored value
    auth,       \* authorize_hubspot calls in flight
    cb,         \* oauth2callback_hubspot requests in flight
    fc,         \* get_hubspot_credentials calls in flight
    done,       \* the call that returned in the step into this state
    calls,      \* number of calls made so far
    tokens,     \* number of tokens token_urlsafe has returned
    issued,     \* history: the states of the URLs authorize has returned
    justAuth,   \* history: the state whose write by authorize was the last
                \* operation on the store (EmptyDict when there is none)
    consumed,   \* history: states a callback validated and deleted, with no
                \* authorize write for their pair since
    succeeded,  \* history: the states of `consumed` whose callback returned
                \* success
    validated,  \* history: tokens that passed a callback's validation
    superseded, \* history: tokens an authorize write replaced in the store
    returned,   \* history: writers of the blobs fetches have returned
    drained,    \* history: pairs whose credentials a fetch returned, with
                \* no credential write since
    quiet,      \* history: states a callback validated and deleted, with no
                \* authorize write at all since
    failed,     \* history: the states of `quiet` whose callback ended in a
                \* failed token exchange
    fresh       \* history: the pair and body of the last credential write,
                \* when it stored a token response and no callback has
                \* arrived, no fetch for the pair has started and no key has
                \* expired since (EmptyDict otherwise)

vars == <<store, auth, cb, fc, done, calls, tokens, issued, justAuth, consumed,
          succeeded, validated, superseded, returned, drained, quiet, failed,
          fresh>>

history == <<issued, justAuth, consumed, succeeded, validated, superseded,
             returned, drained, quiet, failed, fresh>>

AuthIdle == [pc |-> "idle", user_id |-> <<>>, org_id |-> <<>>,
             state_data |-> EmptyDict]

NoParam == [kind |-> "absent", obj |-> EmptyDict]

CbIdle == [pc |-> "idle", code |-> "", state_data |-> EmptyDict,
           saved_state |-> Absent, token_response |-> EmptyDict,
           did |-> {}, flags |-> {}]

FcIdle == [pc |-> "idle", user_id |-> <<>>, org_id |-> <<>>,
           credentials |-> Absent, expect |-> EmptyDict, flags |-> {}]

\* no call returned in the last step
NoCall == [op |-> "none", res |-> "", did |-> {}, flags |-> {},
           org_id |-> <<>>, user_id |-> <<>>, ret |-> EmptyDict]

Returned(op, res, did, flags, org_id, user_id, ret) ==
    [op |-> op, res |-> res, did |-> did, flags |-> flags,
     org_id |-> org_id, user_id |-> user_id, ret |-> ret]

Init ==
    /\ store = [k \in {} |-> Absent]
    /\ auth = [a \in AuthProcs |-> AuthIdle]
    /\ cb = [c \in CbProcs |-> CbIdle]
    /\ fc = [f \in FcProcs |-> FcIdle]
    /\ done = NoCall
    /\ calls = 0
    /\ tokens = 0
    /\ issued = {}
    /\ justAuth = EmptyDict
    /\ consumed = {}
    /\ succeeded = {}
    /\ validated = {}
    /\ superseded = {}
    /\ returned = {}
    /\ drained = {}
    /\ quiet = {}
    /\ failed = {}
    /\ fresh = EmptyDict

\* the identity a decoded state names, as the history variables record it
Triple(sd) == <<get(sd, "state"), get(sd, "org_id"), get(sd, "user_id")>>

(***************************************************************************)
(* authorize_hubspot(user_id, org_id)                                      *)
(***************************************************************************)
\* lines 37-43: build state_data, up to the await of the store write
AuthStart(a, user_id, org_id) ==
    /\ auth[a].pc = "idle"
    /\ calls < MaxCalls
    /\ \A x \in AuthProcs : x < a => auth[x].pc # "idle"
    /\ auth' = [auth EXCEPT ![a] =
                  [pc |-> "set", user_id |-> user_id, org_id |-> org_id,
                   state_data |-> [state |-> token_urlsafe(tokens + 1),
                                   user_id |-> user_id, org_id |-> org_id,
                                   mock |-> is_mock_mode]]]
    /\ tokens' = tokens + 1
    /\ calls' = calls + 1
    /\ done' = NoCall
    /\ UNCHANGED <<store, cb, fc, history>>

\* the URL of lines 48-54, reduced to its state parameter
auth_url(state_data) == quote_json(state_data)

\* a variant that keeps a pending state that is already stored
AuthSetIfAbsent(a) ==
    /\ auth[a].pc = "set"
    /\ LET k == state_key(auth[a].org_id, auth[a].user_id)
           old == get_value_redis(store, k)
           pair == <<auth[a].org_id, auth[a].user_id>>
       IN /\ store' = IF old # Absent THEN store
                      ELSE add_key_value_redis(store, k,
                              [text |-> auth[a].state_data, owner |-> pair,
                               by |-> <<"auth", get(auth[a].state_data, "state")>>])
          /\ superseded' = IF old = Absent THEN superseded
                           ELSE superseded \cup {get(old.text, "state")}
          /\ consumed' = {t \in consumed : <<t[2], t[3]>> # pair}
          /\ succeeded' = {t \in succeeded : <<t[2], t[3]>> # pair}
          /\ done' = Returned("authorize", "ok", {"write"}, {},
                              pair[1], pair[2], auth_url(auth[a].state_data))
    /\ issued' = issued \cup {auth[a].state_data}
    /\ justAuth' = auth[a].state_data
    /\ quiet' = {}
    /\ failed' = {}
    /\ auth' = [auth EXCEPT ![a] = AuthIdle]
    /\ UNCHANGED <<cb, fc, calls, tokens, validated, returned, drained, fresh>>

\* line 46: the write lands in the store; lines 48-54: the URL is returned
AuthSet(a) ==
    /\ auth[a].pc = "set"
    /\ LET k == state_key(auth[a].org_id, auth[a].user_id)
           old == get_value_redis(store, k)
           pair == <<auth[a].org_id, auth[a].user_id>>
       IN /\ store' = add_key_value_redis(store, k,
                         [text |-> auth[a].state_data, owner |-> pair,
                          by |-> <<"auth", get(auth[a].state_data, "state")>>])
          /\ superseded' = IF old = Absent THEN superseded
                           ELSE superseded \cup {get(old.text, "state")}
          /\ consumed' = {t \in consumed : <<t[2], t[3]>> # pair}
          /\ succeeded' = {t \in succeeded : <<t[2], t[3]>> # pair}
          /\ done' = Returned("authorize", "ok", {"write"},
                              IF old # Absent /\ old.owner # pair
                              THEN {"clobber"} ELSE {},
                              pair[1], pair[2],
                              auth_url(auth[a].state_data))
    /\ issued' = issued \cup {auth[a].state_data}
    /\ justAuth' = auth[a].state_data
    /\ quiet' = {}
    /\ failed' = {}
    /\ auth' = [auth EXCEPT ![a] = AuthIdle]
    /\ UNCHANGED <<cb, fc, calls, tokens, validated, returned, drained, fresh>>

(***************************************************************************)
(* oauth2callback_hubspot(request)                                         *)
(***************************************************************************)
\* a variant that does not look at the provider's error parameter
query_error_unchecked(q) ==
    IF q.code = "" \/ q.state.kind = "absent" THEN ErrMissing
    ELSE IF q.state.kind # "json" THEN ErrInvalidParam
    ELSE LET state_data == loads_unquote(q.state.obj)
         IN IF \/ Falsy(get(state_data, "state"))
               \/ Falsy(get(state_data, "user_id"))
               \/ Falsy(get(state_data, "org_id"))
            THEN ErrInvalidData
            ELSE ""

\* lines 60-82: the checks made on the query before the store is read;
\* "" when they all pass
query_error(q) ==
    IF q.error THEN ErrOAuth
    ELSE IF q.code = "" \/ q.state.kind = "absent" THEN ErrMissing
    ELSE IF q.state.kind # "json" THEN ErrInvalidParam
    ELSE LET state_data == loads_unquote(q.state.obj)
         IN IF \/ Falsy(get(state_data, "state"))
               \/ Falsy(get(state_data, "user_id"))
               \/ Falsy(get(state_data, "org_id"))
            THEN ErrInvalidData
            ELSE ""

\* what the history says of a request when it arrives: it carries the state
\* of the URL authorize has just returned (fresh), the state of a callback
\* that succeeded, in a well-formed query (replay), a token that was overwritten in the store
\* (stale), exactly the state stored for the pair it names (current), a
\* token other than the stored one (mismatch); the value stored under the
\* key it names was written for another pair (foreign), or is no pending
\* state (malformed); or the provider reported an error (provider_error).
\* A well-formed query may also carry the state of a callback whose token
\* exchange failed (retry), name a pair under whose key nothing is stored
\* (absent), carry exactly the state of a URL authorize returned (issued),
\* a set mock flag (mock_flag) or the reserved code (mock_code).
ArrivalFlags(q, state_data) ==
    LET org_id == get(state_data, "org_id")
        user_id == get(state_data, "user_id")
        named == ~Falsy(org_id) /\ ~Falsy(user_id)
        saved == IF named THEN get_value_redis(store, state_key(org_id, user_id))
                 ELSE Absent
    IN IF q.error THEN {"provider_error"}
       ELSE IF q.code = "" \/ q.state.kind # "json" THEN {}
       ELSE
       (IF justAuth # EmptyDict /\ q.state.obj = auth_url(justAuth)
        THEN {"fresh"} ELSE {})
       \cup (IF query_error(q) = "" /\ Triple(state_data) \in succeeded
             THEN {"replay"} ELSE {})
       \cup (IF get(state_data, "state") \in superseded THEN {"stale"} ELSE {})
       \cup (IF saved # Absent /\ saved.text = state_data THEN {"current"} ELSE {})
       \cup (IF saved # Absent /\ saved.owner # <<org_id, user_id>>
             THEN {"foreign"} ELSE {})
       \cup (IF saved # Absent /\ "state" \notin DOMAIN saved.text
             THEN {"malformed"} ELSE {})
       \cup (IF /\ saved # Absent
                /\ "state" \in DOMAIN saved.text
                /\ get(saved.text, "state") # get(state_data, "state")
             THEN {"mismatch"} ELSE {})
       \cup (IF query_error(q) = "" /\ Triple(state_data) \in failed
             THEN {"retry"} ELSE {})
       \cup (IF query_error(q) = "" /\ saved = Absent
             THEN {"absent"} ELSE {})
       \cup (IF state_data \in issued THEN {"issued"} ELSE {})
       \cup (IF /\ query_error(q) = ""
                /\ "mock" \in DOMAIN state_data
                /\ state_data["mock"] = TRUE
             THEN {"mock_flag"} ELSE {})
       \cup (IF query_error(q) = "" /\ q.code = "mock_code"
             THEN {"mock_code"} ELSE {})

\* lines 59-85: check the query, decode the state, read the saved state
CbStart(c, q) ==
    /\ cb[c].pc = "idle"
    /\ calls < MaxCalls
    /\ \A x \in CbProcs : x < c => cb[x].pc # "idle"
    /\ calls' = calls + 1
    /\ IF query_error(q) # ""
       THEN LET seen == IF q.state.kind = "json"
                        THEN loads_unquote(q.state.obj) ELSE EmptyDict
            IN /\ done' = Returned("callback", query_error(q), {},
                                   ArrivalFlags(q, seen),
                                   get(seen, "org_id"), get(seen, "user_id"),
                                   EmptyDict)
               /\ UNCHANGED <<cb, justAuth>>
       ELSE LET state_data == loads_unquote(q.state.obj)
                k == state_key(get(state_data, "org_id"), get(state_data, "user_id"))
            IN /\ cb' = [cb EXCEPT ![c] =
                           [CbIdle EXCEPT
                              !.pc = "saved", !.code = q.code,
                              !.state_data = state_data,
                              !.saved_state = get_value_redis(store, k),
                              !.did = {"read"},
                              !.flags = ArrivalFlags(q, state_data)]]
               /\ done' = NoCall
               /\ justAuth' = EmptyDict
    /\ fresh' = EmptyDict
    /\ UNCHANGED <<store, auth, fc, tokens, issued, consumed, succeeded,
                   validated, superseded, returned, drained, quiet,
                   failed>>

\* a variant that accepts any token
validate_saved_any(original_state, saved_state) == ""

\* lines 89-94: compare the token of the callback with the saved one; the
\* bare `except:` also catches the HTTPException raised inside the `try`
validate_saved(original_state, saved_state) ==
    IF "state" \notin DOMAIN saved_state.text THEN ErrInvalidSaved
    ELSE IF original_state # get(saved_state.text, "state") THEN ErrInvalidSaved
    ELSE ""

\* the request ends with an HTTPException
CbRaise(c, r, detail) ==
    /\ cb' = [cb EXCEPT ![c] = CbIdle]
    /\ done' = Returned("callback", detail, r.did, r.flags,
                        get(r.state_data, "org_id"), get(r.state_data, "user_id"),
                        EmptyDict)

\* a variant that leaves the saved state in the store when it validates
CbValidateKeep(c) ==
    /\ cb[c].pc = "saved"
    /\ LET r == cb[c]
           original_state == get(r.state_data, "state")
           k == state_key(get(r.state_data, "org_id"), get(r.state_data, "user_id"))
       IN IF r.saved_state = Absent
          THEN /\ CbRaise(c, r, ErrExpired)
               /\ UNCHANGED <<store, consumed, validated, justAuth, quiet>>
          ELSE IF validate_saved(original_state, r.saved_state) # ""
          THEN /\ CbRaise(c, r, validate_saved(original_state, r.saved_state))
               /\ UNCHANGED <<store, consumed, validated, justAuth, quiet>>
          ELSE /\ store' = store
               /\ cb' = [cb EXCEPT ![c].pc =
                             IF get_mock(r.state_data) \/ r.code = "mock_code"
                             THEN "mock_store" ELSE "post",
                           ![c].did = r.did \cup {"delete"},
                           ![c].flags = r.flags \cup
                               (IF original_state \in validated
                                THEN {"twice"} ELSE {})]
               /\ consumed' = consumed \cup {Triple(r.state_data)}
               /\ validated' = validated \cup {original_state}
               /\ quiet' = quiet \cup {Triple(r.state_data)}
               /\ justAuth' = EmptyDict
               /\ done' = NoCall
    /\ UNCHANGED <<auth, fc, calls, tokens, issued, succeeded, superseded,
                   returned, drained, failed, fresh>>

\* a variant without the check of lines 86-87 for a missing saved state
CbValidateNoExpiry(c) ==
    /\ cb[c].pc = "saved"
    /\ LET r == cb[c]
           original_state == get(r.state_data, "state")
           k == state_key(get(r.state_data, "org_id"), get(r.state_data, "user_id"))
       IN IF validate_saved(original_state, r.saved_state) # ""
          THEN /\ CbRaise(c, r, validate_saved(original_state, r.saved_state))
               /\ UNCHANGED <<store, consumed, validated, justAuth, quiet>>
          ELSE /\ store' = delete_key_redis(store, k)
               /\ cb' = [cb EXCEPT ![c].pc =
                             IF get_mock(r.state_data) \/ r.code = "mock_code"
                             THEN "mock_store" ELSE "post",
                           ![c].did = r.did \cup {"delete"},
                           ![c].flags = r.flags \cup
                               (IF original_state \in validated
                                THEN {"twice"} ELSE {})]
               /\ consumed' = consumed \cup {Triple(r.state_data)}
               /\ validated' = validated \cup {original_state}
               /\ quiet' = quiet \cup {Triple(r.state_data)}
               /\ justAuth' = EmptyDict
               /\ done' = NoCall
    /\ UNCHANGED <<auth, fc, calls, tokens, issued, succeeded, superseded,
                   returned, drained, failed, fresh>>

\* lines 86-97: validate, then delete the saved state
CbValidate(c) ==
    /\ cb[c].pc = "saved"
    /\ LET r == cb[c]
           original_state == get(r.state_data, "state")
           k == state_key(get(r.state_data, "org_id"), get(r.state_data, "user_id"))
       IN IF r.saved_state = Absent
          THEN /\ CbRaise(c, r, ErrExpired)
               /\ UNCHANGED <<store, consumed, validated, justAuth, quiet>>
          ELSE IF validate_saved(original_state, r.saved_state) # ""
          THEN /\ CbRaise(c, r, validate_saved(original_state, r.saved_state))
               /\ UNCHANGED <<store, consumed, validated, justAuth, quiet>>
          ELSE /\ store' = delete_key_redis(store, k)
               /\ cb' = [cb EXCEPT ![c].pc =
                             IF get_mock(r.state_data) \/ r.code = "mock_code"
                             THEN "mock_store" ELSE "post",
                           ![c].did = r.did \cup {"delete"},
                           ![c].flags = r.flags \cup
                               (IF original_state \in validated
                                THEN {"twice"} ELSE {})]
               /\ consumed' = consumed \cup {Triple(r.state_data)}
               /\ validated' = validated \cup {original_state}
               /\ quiet' = quiet \cup {Triple(r.state_data)}
               /\ justAuth' = EmptyDict
               /\ done' = NoCall
    /\ UNCHANGED <<auth, fc, calls, tokens, issued, succeeded, superseded,
                   returned, drained, failed, fresh>>

\* lines 107 and 142-146: write a credential blob for the pair the state
\* names; lines 109-115 and 151-157: return the acknowledgement
StoreCredentials(c, blob) ==
    LET r == cb[c]
        org_id == get(r.state_data, "org_id")
        user_id == get(r.state_data, "user_id")
    IN /\ store' = add_key_value_redis(store, credentials_key(org_id, user_id),
                      [text |-> blob, owner |-> <<org_id, user_id>>,
                       by |-> <<"cb", get(r.state_data, "state"), c>>])
       /\ cb' = [cb EXCEPT ![c] = CbIdle]
       /\ done' = Returned("callback", "ok", r.did \cup {"write"}, r.flags,
                           org_id, user_id, blob)
       /\ succeeded' = IF Triple(r.state_data) \in consumed
                       THEN succeeded \cup {Triple(r.state_data)}
                       ELSE succeeded
       /\ drained' = {}
       /\ justAuth' = EmptyDict

\* lines 100-115: mock mode stores the fixed blob
CbMockStore(c) ==
    /\ cb[c].pc = "mock_store"
    /\ StoreCredentials(c, mock_token_data)
    /\ fresh' = EmptyDict
    /\ UNCHANGED <<auth, fc, calls, tokens, issued, consumed, validated,
                   superseded, returned, quiet, failed>>

\* lines 127-139 and 148-149: the token exchange
CbPost(c, response) ==
    /\ cb[c].pc = "post"
    /\ LET r == [cb[c] EXCEPT !.did = @ \cup {"post"}]
       IN IF response.kind = "RequestError"
          THEN /\ CbRaise(c, r, ErrNetwork)
               /\ failed' = failed \cup ({Triple(r.state_data)} \cap quiet)
          ELSE IF response.status_code # 200
          THEN /\ CbRaise(c, r, ErrExchange)
               /\ failed' = failed \cup ({Triple(r.state_data)} \cap quiet)
          ELSE /\ cb' = [cb EXCEPT ![c] =
                            [r EXCEPT !.pc = "store",
                                      !.token_response = response.json]]
               /\ done' = NoCall
               /\ UNCHANGED failed
    /\ UNCHANGED <<store, auth, fc, calls, tokens, issued, justAuth, consumed,
                   succeeded, validated, superseded, returned, drained, quiet,
                   fresh>>

\* lines 142-146 and 151-157: store the token response
CbStore(c) ==
    /\ cb[c].pc = "store"
    /\ StoreCredentials(c, cb[c].token_response)
    /\ fresh' = [org_id |-> get(cb[c].state_data, "org_id"),
                 user_id |-> get(cb[c].state_data, "user_id"),
                 body |-> cb[c].token_response]
    /\ UNCHANGED <<auth, fc, calls, tokens, issued, consumed, validated,
                   superseded, returned, quiet, failed>>

(***************************************************************************)
(* get_hubspot_credentials(user_id, org_id)                                *)
(***************************************************************************)
\* the call is the first fetch for the pair whose callback has just stored
\* a token response
IsNext(org_id, user_id) ==
    /\ fresh # EmptyDict
    /\ fresh.org_id = org_id
    /\ fresh.user_id = user_id

\* line 161: read the credentials
FcStart(f, user_id, org_id) ==
    /\ fc[f].pc = "idle"
    /\ calls < MaxCalls
    /\ \A x \in FcProcs : x < f => fc[x].pc # "idle"
    /\ fc' = [fc EXCEPT ![f] =
                 [pc |-> "read", user_id |-> user_id, org_id |-> org_id,
                  credentials |->
                      get_value_redis(store, credentials_key(org_id, user_id)),
                  expect |-> IF IsNext(org_id, user_id)
                             THEN fresh.body ELSE EmptyDict,
                  flags |->
                      (IF <<org_id, user_id>> \in drained
                       THEN {"second"} ELSE {})
                      \cup (IF credentials_key(org_id, user_id) \in DOMAIN store
                            THEN {"present"} ELSE {})
                      \cup (IF IsNext(org_id, user_id) THEN {"next"} ELSE {})]]
    /\ fresh' = IF IsNext(org_id, user_id) THEN EmptyDict ELSE fresh
    /\ calls' = calls + 1
    /\ done' = NoCall
    /\ UNCHANGED <<store, auth, cb, tokens, issued, justAuth, consumed,
                   succeeded, validated, superseded, returned, drained, quiet,
                   failed>>

\* a variant that returns the blob and leaves it in the store
FcFinishKeep(f) ==
    /\ fc[f].pc = "read"
    /\ LET r == fc[f]
       IN IF r.credentials = Absent
          THEN /\ done' = Returned("fetch", ErrNoCredentials, {"read"}, r.flags,
                                   r.org_id, r.user_id, EmptyDict)
               /\ UNCHANGED <<store, drained, returned, justAuth>>
          ELSE /\ done' = Returned("fetch", "ok", {"read"},
                                   r.flags
                                   \cup (IF r.credentials.by \in returned
                                         THEN {"dup"} ELSE {})
                                   \cup (IF r.credentials.text = r.expect
                                         THEN {"exact"} ELSE {}),
                                   r.org_id, r.user_id, r.credentials.text)
               /\ returned' = returned \cup {r.credentials.by}
               /\ drained' = drained \cup {<<r.org_id, r.user_id>>}
               /\ UNCHANGED <<store, justAuth>>
    /\ fc' = [fc EXCEPT ![f] = FcIdle]
    /\ UNCHANGED <<auth, cb, calls, tokens, issued, consumed, succeeded,
                   validated, superseded, quiet, failed, fresh>>

\* lines 163-174: fail on a missing value, else delete the key and return
\* the parsed blob (json.loads of a text json.dumps wrote cannot fail)
FcFinish(f) ==
    /\ fc[f].pc = "read"
    /\ LET r == fc[f]
       IN IF r.credentials = Absent
          THEN /\ done' = Returned("fetch", ErrNoCredentials, {"read"}, r.flags,
                                   r.org_id, r.user_id, EmptyDict)
               /\ UNCHANGED <<store, drained, returned, justAuth>>
          ELSE /\ store' = delete_key_redis(store,
                                credentials_key(r.org_id, r.user_id))
               /\ done' = Returned("fetch", "ok", {"read", "delete"},
                                   r.flags
                                   \cup (IF r.credentials.by \in returned
                                         THEN {"dup"} ELSE {})
                                   \cup (IF r.credentials.text = r.expect
                                         THEN {"exact"} ELSE {}),
                                   r.org_id, r.user_id, r.credentials.text)
               /\ returned' = returned \cup {r.credentials.by}
               /\ drained' = drained \cup {<<r.org_id, r.user_id>>}
               /\ justAuth' = EmptyDict
    /\ fc' = [fc EXCEPT ![f] = FcIdle]
    /\ UNCHANGED <<auth, cb, calls, tokens, issued, consumed, succeeded,
                   validated, superseded, quiet, failed, fresh>>

(***************************************************************************)
(* Expiry: both keys are written with expire=600; the store drops a key    *)
(* when its time is up, which may be at any point of a run.                *)
(***************************************************************************)
Expire(k) ==
    /\ k \in DOMAIN store
    /\ store' = delete_key_redis(store, k)
    /\ justAuth' = EmptyDict
    /\ done' = NoCall
    /\ fresh' = EmptyDict
    /\ UNCHANGED <<auth, cb, fc, calls, tokens, issued, consumed, succeeded,
                   validated, superseded, returned, drained, quiet,
                   failed>>

(***************************************************************************)
(* Inputs                                                                  *)
(***************************************************************************)
\* pairs whose state key some authorize call has addressed
NamedPairs ==
    {p \in Pairs : \E s \in issued \cup {auth[a].state_data :
                                          a \in {x \in AuthProcs : auth[x].pc # "idle"}} :
        state_key(p[1], p[2]) = state_key(s.org_id, s.user_id)}

\* states a caller of the callback endpoint may present: an issued token or
\* a forged one, for any named pair, with either mock flag
CandidateStates ==
    {[state |-> t, user_id |-> p[2], org_id |-> p[1], mock |-> m] :
        t \in {s.state : s \in issued} \cup {ForgedToken},
        p \in NamedPairs, m \in BOOLEAN}

\* the code parameter: a code of the provider, or the reserved one; a state
\* whose mock flag is set comes with a code of the provider
CodesFor(d) == IF get_mock(d) THEN {"c1"} ELSE {"c1", "mock_code"}

\* an issued state with one key left out
DroppedStates ==
    {[k \in DOMAIN s \ {x} |-> s[k]] :
        s \in issued, x \in {"state", "user_id", "org_id", "mock"}}

Queries ==
    UNION {{[error |-> FALSE, code |-> c,
             state |-> [kind |-> "json", obj |-> quote_json(d)]] : c \in CodesFor(d)} :
           d \in CandidateStates \cup DroppedStates}
    \cup {[error |-> TRUE, code |-> "c1",
           state |-> [kind |-> "json", obj |-> quote_json(d)]] : d \in issued}
    \cup {[error |-> TRUE, code |-> "c1", state |-> NoParam],
          [error |-> FALSE, code |-> "", state |-> NoParam],
          [error |-> FALSE, code |-> "c1", state |-> NoParam],
          [error |-> FALSE, code |-> "c1",
           state |-> [kind |-> "text", obj |-> EmptyDict]]}

(***************************************************************************)
(* Calls: a free slot takes a call with any of the inputs                  *)
(***************************************************************************)
AuthCall(a) ==
    /\ auth[a].pc = "idle" /\ calls < MaxCalls
    /\ \E p \in Pairs : AuthStart(a, p[2], p[1])

CbCall(c) ==
    /\ cb[c].pc = "idle" /\ calls < MaxCalls
    /\ \E q \in Queries : CbStart(c, q)

FcCall(f) ==
    /\ fc[f].pc = "idle" /\ calls < MaxCalls
    /\ \E p \in NamedPairs : FcStart(f, p[2], p[1])

(***************************************************************************)
(* Specification                                                           *)
(***************************************************************************)
Next ==
    \/ \E a \in AuthProcs : AuthCall(a)
    \/ \E a \in AuthProcs : AuthSet(a)
    \/ \E c \in CbProcs : CbCall(c)
    \/ \E c \in CbProcs : CbValidate(c)
    \/ \E c \in CbProcs : CbMockStore(c)
    \/ \E c \in CbProcs, response \in Responses : CbPost(c, response)
    \/ \E c \in CbProcs : CbStore(c)
    \/ \E f \in FcProcs : FcCall(f)
    \/ \E f \in FcProcs : FcFinish(f)
    \/ \E k \in DOMAIN store : Expire(k)

Spec == Init /\ [][Next]_vars

(***************************************************************************)
(* create_integration_item_metadata_object and get_items_hubspot           *)
(*                                                                         *)
(* Both are functions of their arguments and of the answers of the         *)
(* provider; neither touches the store.  A JSON value of a provider record *)
(* is a record that carries its type: an integer, a string (a sequence of  *)
(* characters, a literal of the code being one element) or a missing key.  *)
(***************************************************************************)
JInt(n) == [t |-> "int", n |-> n, s |-> <<>>]
JStr(s) == [t |-> "str", n |-> 0, s |-> s]
\* the key is not in the object
Missing == [t |-> "missing", n |-> 0, s |-> <<>>]

\* length of a result collection of the provider
MaxResults == 2

Digit == <<"0", "1", "2", "3", "4", "5", "6", "7", "8", "9">>

\* str(n) of a natural number
RECURSIVE str_int(_)
str_int(n) ==
    IF n < 10 THEN <<Digit[n + 1]>>
    ELSE str_int(n \div 10) \o <<Digit[(n % 10) + 1]>>

\* str(v), and the formatting of v in an f-string
str(v) == IF v.t = "int" THEN str_int(v.n) ELSE v.s

\* d.get(k, default) on an object of JSON values
dict_get(d, k, default) == IF k \in DOMAIN d THEN d[k] ELSE default

\* str.strip(): drop the white space at both ends
RECURSIVE lstrip(_)
lstrip(s) == IF s # <<>> /\ Head(s) = " " THEN lstrip(Tail(s)) ELSE s

RECURSIVE rstrip(_)
rstrip(s) ==
    IF s # <<>> /\ s[Len(s)] = " " THEN rstrip(SubSeq(s, 1, Len(s) - 1)) ELSE s

strip(s) == rstrip(lstrip(s))

\* the truth value of a JSON value in an `if`
Truthy(v) ==
    \/ v.t = "int" /\ v.n # 0
    \/ v.t = "str" /\ v.s # <<>>

\* the value of a string of decimal digits
RECURSIVE digits_value(_)
digits_value(s) ==
    IF s = <<>> THEN 0
    ELSE 10 * digits_value(SubSeq(s, 1, Len(s) - 1))
         + (CHOOSE d \in 0..9 : Digit[d + 1] = s[Len(s)])

\* int(v): the integer, or ValueError for a string that is no number
int(v) ==
    IF v.t = "int" THEN [ok |-> TRUE, n |-> v.n]
    ELSE IF v.s # <<>> /\ \A i \in 1..Len(v.s) : \E d \in 0..9 : Digit[d + 1] = v.s[i]
    THEN [ok |-> TRUE, n |-> digits_value(v.s)]
    ELSE [ok |-> FALSE, n |-> 0]

\* a timestamp field of IntegrationItem: None, or the datetime of an
\* instant given in milliseconds since the epoch
Unset == [set |-> FALSE, ms |-> 0]
fromtimestamp(ms) == [set |-> TRUE, ms |-> ms]

\* lines 206-210 and 212-216: convert a timestamp when the field is truthy,
\* leave it None when it is not or when int() raises
convert_timestamp(response_json, key) ==
    LET v == dict_get(response_json, key, Missing)
    IN IF Truthy(v)
       THEN IF int(v).ok THEN fromtimestamp(int(v).n) ELSE Unset
       ELSE Unset

\* a variant that does not fall back to the email property
contact_name_no_email(properties, item_id) ==
    LET firstname == dict_get(properties, "firstname", JStr(<<>>))
        lastname == dict_get(properties, "lastname", JStr(<<>>))
        name == strip(str(firstname) \o <<" ">> \o str(lastname))
    IN IF name = <<>> THEN JStr(<<"Contact", " ">> \o item_id)
       ELSE JStr(name)

\* lines 183-187: the name of a Contact
contact_name(properties, item_id) ==
    LET firstname == dict_get(properties, "firstname", JStr(<<>>))
        lastname == dict_get(properties, "lastname", JStr(<<>>))
        name == strip(str(firstname) \o <<" ">> \o str(lastname))
    IN IF name = <<>>
       THEN dict_get(properties, "email", JStr(<<"Contact", " ">> \o item_id))
       ELSE JStr(name)

ContactsUrl == "https://app.hubspot.com/contacts/"

\* lines 176-226
create_integration_item_metadata_object(response_json, item_type) ==
    LET properties == dict_get(response_json, "properties", EmptyDict)
        item_id == str(dict_get(response_json, "id", JStr(<<>>)))
        name == IF item_type = "Contact" THEN contact_name(properties, item_id)
                ELSE IF item_type = "Company"
                THEN dict_get(properties, "name", JStr(<<"Company", " ">> \o item_id))
                ELSE IF item_type = "Deal"
                THEN dict_get(properties, "dealname", JStr(<<"Deal", " ">> \o item_id))
                ELSE JStr(<<item_type, " ">> \o item_id)
        url == IF item_type = "Company"
               THEN <<ContactsUrl>> \o item_id \o <<"/company">>
               ELSE IF item_type = "Deal"
               THEN <<ContactsUrl>> \o item_id \o <<"/deal">>
               ELSE <<ContactsUrl>> \o item_id
    IN [id |-> item_id,
        type |-> item_type,
        name |-> name,
        creation_time |-> convert_timestamp(response_json, "createdAt"),
        last_modified_time |-> convert_timestamp(response_json, "updatedAt"),
        url |-> url,
        visibility |-> TRUE]

\* lines 246-283: the items of the mock data; `now` is what datetime.now()
\* returns
mock_items(now) ==
    << [id |-> <<"1001">>, type |-> "Contact", name |-> JStr(<<"John Doe">>),
        creation_time |-> fromtimestamp(now),
        last_modified_time |-> fromtimestamp(now),
        url |-> <<ContactsUrl, "1001">>, visibility |-> TRUE],
       [id |-> <<"1002">>, type |-> "Contact", name |-> JStr(<<"Jane Smith">>),
        creation_time |-> fromtimestamp(now),
        last_modified_time |-> fromtimestamp(now),
        url |-> <<ContactsUrl, "1002">>, visibility |-> TRUE],
       [id |-> <<"2001">>, type |-> "Company",
        name |-> JStr(<<"Acme Corporation">>),
        creation_time |-> fromtimestamp(now),
        last_modified_time |-> fromtimestamp(now),
        url |-> <<ContactsUrl, "2001", "/company">>, visibility |-> TRUE],
       [id |-> <<"3001">>, type |-> "Deal",
        name |-> JStr(<<"Enterprise Deal Q1">>),
        creation_time |-> fromtimestamp(now),
        last_modified_time |-> fromtimestamp(now),
        url |-> <<ContactsUrl, "3001", "/deal">>, visibility |-> TRUE] >>

ErrCredentialsFormat == "Invalid credentials format"
ErrNoAccessToken == "No access token found in credentials"
ErrUnauthorized == "HubSpot access token expired or invalid"

\* a variant that takes no access token for the mock one
uses_mock_data_never(access_token) == FALSE

\* line 245
uses_mock_data(access_token) == access_token = <<"mock_access_token">>

\* a variant that maps the first record of a collection only
map_results_first(results, item_type) ==
    [i \in 1..(IF Len(results) > 0 THEN 1 ELSE 0) |->
        create_integration_item_metadata_object(results[i], item_type)]

\* lines 305-307, 326-328 and 345-347: map the records of a collection in
\* order
map_results(results, item_type) ==
    [i \in 1..Len(results) |->
        create_integration_item_metadata_object(results[i], item_type)]

\* the items one fetch adds to the list: those of a 200 answer, whose
\* collection is data.get('results', []); none after any other status or a
\* RequestError
fetched_items(response, item_type) ==
    IF response.kind = "status" /\ response.status_code = 200
    THEN map_results(IF "results" \in DOMAIN response.json
                     THEN response.json.results ELSE <<>>, item_type)
    ELSE <<>>

\* a variant that lets a 401 on the contacts fetch pass with a warning
contacts_unauthorized_never(response) == FALSE

\* lines 308-309: the contacts fetch raises on a 401
contacts_unauthorized(response) ==
    response.kind = "status" /\ response.status_code = 401

\* lines 228-358: the detail of the HTTPException raised ("ok" when the list
\* is returned), the list, and the fetches made, in order
get_items_hubspot(credentials, now, contacts_response, companies_response, deals_response) ==
    LET failure(detail) == [res |-> detail, items |-> <<>>, requested |-> <<>>]
    IN IF credentials.kind = "str" /\ ~credentials.valid
       THEN failure(ErrCredentialsFormat)
       ELSE LET credentials_data == credentials.obj
                access_token == get(credentials_data, "access_token")
            IN IF Falsy(access_token) THEN failure(ErrNoAccessToken)
               ELSE IF uses_mock_data(access_token)
               THEN [res |-> "ok", items |-> mock_items(now),
                     requested |-> <<>>]
               ELSE IF contacts_unauthorized(contacts_response)
               THEN [res |-> ErrUnauthorized, items |-> <<>>,
                     requested |-> <<"contacts">>]
               ELSE [res |-> "ok",
                     items |-> fetched_items(contacts_response, "Contact")
                               \o fetched_items(companies_response, "Company")
                               \o fetched_items(deals_response, "Deal"),
                     requested |-> <<"contacts", "companies", "deals">>]

(***************************************************************************)
(* Inputs of the two functions                                             *)
(***************************************************************************)
IdValues == {Missing, JInt(42), JStr(<<"7">>)}
FirstNames == {Missing, JStr(<<"A">>), JStr(<<" ">>)}
LastNames == {Missing, JStr(<<"B">>), JStr(<<>>)}
Emails == {Missing, JStr(<<"a", "@", "b">>)}
CompanyNames == {Missing, JStr(<<"N">>)}
DealNames == {Missing, JStr(<<"D">>)}
CreatedValues ==
    {Missing, JInt(0), JInt(1000), JStr(<<"x">>), JStr(<<"5">>)}
UpdatedValues == {Missing, JInt(0), JInt(2000)}
ItemTypes == {"Contact", "Company", "Deal", "Lead"}

\* the objects with the given values under the property keys, without the
\* keys whose value is Missing
PropertyObjects ==
    {LET value(k) == CASE k = "firstname" -> f [] k = "lastname" -> l
                       [] k = "email" -> e [] k = "name" -> n
                       [] k = "dealname" -> d
     IN [k \in {x \in {"firstname", "lastname", "email", "name", "dealname"} :
                   value(x) # Missing} |-> value(k)] :
        f \in FirstNames, l \in LastNames, e \in Emails, n \in CompanyNames,
        d \in DealNames}

\* a provider record with the given fields
ProviderRecord(id, has_properties, properties, createdAt, updatedAt) ==
    [k \in {x \in {"id", "createdAt", "updatedAt"} :
               (CASE x = "id" -> id [] x = "createdAt" -> createdAt
                  [] x = "updatedAt" -> updatedAt) # Missing}
           \cup (IF has_properties THEN {"properties"} ELSE {}) |->
        CASE k = "id" -> id [] k = "createdAt" -> createdAt
          [] k = "updatedAt" -> updatedAt [] k = "properties" -> properties]

\* the records the result collections are made of
SampleRecords ==
    {ProviderRecord(JInt(42), TRUE,
                    [firstname |-> JStr(<<"A">>), lastname |-> JStr(<<"B">>)],
                    JInt(0), Missing),
     ProviderRecord(JStr(<<"7">>), TRUE, [name |-> JStr(<<"N">>)],
                    JInt(1000), JInt(2000))}

ResultCollections ==
    UNION {[1..n -> SampleRecords] : n \in 0..MaxResults}

\* outcomes of one client.get(...)
FetchResponses ==
    {[kind |-> "status", status_code |-> 200, json |-> [results |-> r]] :
        r \in ResultCollections}
    \cup {[kind |-> "status", status_code |-> 200, json |-> EmptyDict],
          [kind |-> "status", status_code |-> 401, json |-> EmptyDict],
          [kind |-> "status", status_code |-> 500, json |-> EmptyDict],
          [kind |-> "RequestError", status_code |-> 0, json |-> EmptyDict]}

\* the argument of get_items_hubspot: an object, the text of an object, or
\* a text that is no JSON
CredentialObjects ==
    TokenBodies \cup {mock_token_data, [token_type |-> <<"bearer">>]}

CredentialValues ==
    {[kind |-> k, valid |-> TRUE, obj |-> o] :
        k \in {"dict", "str"}, o \in CredentialObjects}
    \cup {[kind |-> "str", valid |-> FALSE, obj |-> EmptyDict]}

\* instants datetime.now() may return, in milliseconds
Clock == {3000}

(***************************************************************************)
(* Calls of the two functions: `done` holds the arguments and the result. *)
(* A run makes one call.                                                   *)
(***************************************************************************)
MapItemCall(response_json, item_type) ==
    /\ done.op = "none"
    /\ done' = [op |-> "map_item", response_json |-> response_json,
                item_type |-> item_type,
                item |-> create_integration_item_metadata_object(
                             response_json, item_type)]
    /\ UNCHANGED <<store, auth, cb, fc, calls, tokens, history>>

GetItemsCall(credentials, now, contacts_response, companies_response, deals_response) ==
    /\ done.op = "none"
    /\ done' = [op |-> "get_items", credentials |-> credentials, now |-> now,
                contacts_response |-> contacts_response,
                companies_response |-> companies_response,
                deals_response |-> deals_response,
                result |-> get_items_hubspot(credentials, now,
                              contacts_response, companies_response,
                              deals_response)]
    /\ UNCHANGED <<store, auth, cb, fc, calls, tokens, history>>

\* a call with any of the inputs
MapItem ==
    /\ done.op = "none"
    /\ \E id \in IdValues, has_properties \in BOOLEAN,
          properties \in PropertyObjects, createdAt \in CreatedValues,
          updatedAt \in UpdatedValues, item_type \in ItemTypes :
          MapItemCall(ProviderRecord(id, has_properties, properties,
                                     createdAt, updatedAt), item_type)

GetItems ==
    /\ done.op = "none"
    /\ \E credentials \in CredentialValues, now \in Clock,
          contacts_response \in FetchResponses,
          companies_response \in FetchResponses,
          deals_response \in FetchResponses :
          GetItemsCall(credentials, now, contacts_response,
                       companies_response, deals_response)

ItemsNext == MapItem \/ GetItems

ItemsSpec == Init /\ [][ItemsNext]_vars

(***************************************************************************)
(* Properties                                                              *)
(***************************************************************************)
CallbackReturned == done.op = "callback"
FetchReturned == done.op = "fetch"

\* C1 as stated: for any (user_id, org_id), a callback that carries the
\* state of the URL authorize has just returned, with a code, ends without a
\* state error.
C1_AnyPairNoStateError ==
    (CallbackReturned /\ "fresh" \in done.flags) => done.res \notin StateErrors

\* C1 amended: for any non-empty user_id and org_id, a callback that carries
\* the state of the URL authorize has just returned, with a code, ends
\* without a state error.
C1_NonEmptyPairNoStateError ==
    (/\ CallbackReturned
     /\ "fresh" \in done.flags
     /\ done.org_id # <<>>
     /\ done.user_id # <<>>) => done.res \notin StateErrors

C1_Witness ==
    /\ CallbackReturned
    /\ "fresh" \in done.flags
    /\ <<done.org_id, done.user_id>> = <<<<"a", ":">>, <<"a">>>>
    /\ done.res = "ok"

\* C2: a callback that carries the state of a callback that succeeded, with
\* no authorize for that pair since, fails with "State expired or not found".
C2_ReplayExpired ==
    (CallbackReturned /\ "replay" \in done.flags) => done.res = ErrExpired

\* C3: a callback whose token differs from the token stored for the pair it
\* names is rejected: it gets no further than the read of the store (no
\* delete, no token exchange, no credential write) and ends with a state
\* error.
C3_TamperedTokenRejected ==
    /\ \A c \in CbProcs :
          "mismatch" \in cb[c].flags => cb[c].pc = "saved" /\ cb[c].did = {"read"}
    /\ (CallbackReturned /\ "mismatch" \in done.flags) =>
          /\ done.res \in StateErrors
          /\ done.did \subseteq {"read"}

C3_Witness ==
    /\ CallbackReturned
    /\ "mismatch" \in done.flags
    /\ done.did = {"read"}
    /\ state_key(done.org_id, done.user_id) \in DOMAIN store

\* C4: a token mismatch against a well-formed stored state fails with "State
\* does not match"; "Invalid saved state" is only for a malformed stored
\* state.
C4_MismatchDetail ==
    CallbackReturned =>
        /\ ("mismatch" \in done.flags /\ "read" \in done.did) =>
               done.res = ErrMismatch
        /\ done.res = ErrInvalidSaved => "malformed" \in done.flags

\* C5: of two fetches in a row for a pair with a stored blob, with no
\* callback in between, the first succeeds and deletes the blob and the
\* second fails with "no credentials found".
C5_SecondFetchFails ==
    FetchReturned =>
        /\ "second" \in done.flags => done.res = ErrNoCredentials
        /\ "present" \in done.flags <=> done.res = "ok"
        /\ done.res = "ok" =>
              /\ credentials_key(done.org_id, done.user_id) \notin DOMAIN store
              /\ done.ret \in {mock_token_data} \cup TokenBodies

C5_Witness ==
    /\ FetchReturned
    /\ "second" \in done.flags
    /\ done.res = ErrNoCredentials

\* C6: a credential blob written by one callback is returned by at most one
\* fetch, in every interleaving of concurrent fetches.
C6_BlobReturnedOnce == FetchReturned => "dup" \notin done.flags

\* C7: a pending state is consumed once: of the callbacks that carry it, at
\* most one passes validation.
C7_ValidatedOnce == \A c \in CbProcs : "twice" \notin cb[c].flags

\* C8: the last authorize write for a key wins: the store never holds a
\* token that was overwritten, a callback that carries exactly the stored
\* state passes validation, and a callback that carries an overwritten token
\* is rejected without deleting anything.
C8_LastWriterWins ==
    /\ \A k \in DOMAIN store :
          k[1] = "hubspot_state" => get(store[k].text, "state") \notin superseded
    /\ \A c \in CbProcs : "stale" \in cb[c].flags => cb[c].pc = "saved"
    /\ \A c \in CbProcs :
          ("current" \in cb[c].flags /\ cb[c].pc # "saved") => "delete" \in cb[c].did
    /\ CallbackReturned =>
          /\ "stale" \in done.flags =>
                done.res \in StateErrors /\ done.did \subseteq {"read"}
          /\ "current" \in done.flags =>
                "delete" \in done.did /\ done.res \notin StateErrors

C8_Witness ==
    /\ CallbackReturned
    /\ "stale" \in done.flags
    /\ done.res \in StateErrors
    /\ state_key(done.org_id, done.user_id) \in DOMAIN store
    /\ store[state_key(done.org_id, done.user_id)].owner = <<done.org_id, done.user_id>>

\* C9: keys are scoped per pair: distinct pairs have distinct keys, so an
\* authorize for one pair never overwrites the pending state of another,
\* and a callback that names one pair never reads what was stored for
\* another.
C9_KeysScoped ==
    /\ done.op = "authorize" => "clobber" \notin done.flags
    /\ \A c \in CbProcs : "foreign" \notin cb[c].flags

\* C10: a callback that fails before its validation completes leaves the
\* store as it was, having at most read it; with a provider error it has not
\* read it either.
PreValidationErrors ==
    {ErrOAuth, ErrMissing, ErrInvalidParam, ErrInvalidData, ErrExpired,
     ErrMismatch, ErrInvalidSaved}

C10_FailedCallbackFrame ==
    [][/\ (done'.op = "callback" /\ done'.res \in PreValidationErrors) =>
              store' = store /\ done'.did \subseteq {"read"}
       /\ \A c \in CbProcs : "provider_error" \notin cb'[c].flags
       /\ (done'.op = "callback" /\ "provider_error" \in done'.flags) =>
              done'.res = ErrOAuth /\ done'.did = {} /\ store' = store]_vars

C10_Witness ==
    /\ CallbackReturned
    /\ done.res = ErrInvalidSaved
    /\ done.did = {"read"}
    /\ state_key(done.org_id, done.user_id) \in DOMAIN store

\* C11: once validation has passed the pending state is consumed whether or
\* not the token exchange succeeds: a callback whose exchange failed (a
\* non-200 response or a transport failure) has read, deleted and posted
\* but written no credentials, the state it presented is no longer stored,
\* and a retry with the same state, with no authorize write since the
\* validation, fails with "State expired or not found" before any exchange.
C11_ExchangeFailureConsumesState ==
    /\ (CallbackReturned /\ done.res \in {ErrExchange, ErrNetwork}) =>
           done.did = {"read", "delete", "post"}
    /\ \A t \in failed : \A k \in DOMAIN store :
           store[k].by # <<"auth", t[1]>>
    /\ \A c \in CbProcs : "retry" \in cb[c].flags =>
           cb[c].pc = "saved" /\ cb[c].saved_state = Absent
    /\ (CallbackReturned /\ "retry" \in done.flags) =>
           done.res = ErrExpired /\ done.did = {"read"}

C11_Witness ==
    /\ CallbackReturned
    /\ "retry" \in done.flags
    /\ done.res = ErrExpired
    /\ <<done.org_id, done.user_id>> \in {<<t[2], t[3]>> : t \in failed}

\* C12: round trip of the token response: the first fetch for a pair after
\* a callback stored the body of a 200 token response for it, with no other
\* callback and no expiry in between, returns exactly that body.
C12_NextFetchReturnsBody ==
    (FetchReturned /\ "next" \in done.flags) =>
        done.res = "ok" /\ "exact" \in done.flags /\ done.ret \in TokenBodies

\* C18: a callback with a well-formed state that names a pair under whose
\* key no pending state is stored when it arrives (the state expired, or
\* none was ever set) fails with "State expired or not found", having only
\* read the store: no token exchange, no credential write.
C18_AbsentStateRejected ==
    /\ \A c \in CbProcs : "absent" \in cb[c].flags =>
           cb[c].pc = "saved" /\ cb[c].did = {"read"}
    /\ (CallbackReturned /\ "absent" \in done.flags) =>
           done.res = ErrExpired /\ done.did = {"read"}

\* the state was issued and no callback has ever validated, so that nothing
\* but expiry has removed it
C18_Witness ==
    /\ CallbackReturned
    /\ {"absent", "issued"} \subseteq done.flags
    /\ validated = {}
    /\ superseded = {}
    /\ done.res = ErrExpired

\* C19: a callback that passed validation skips the token exchange exactly
\* when the mock flag of its decoded state is set or its code is
\* "mock_code"; then, and only then, it stores the fixed blob (access token
\* "mock_access_token") and returns success; otherwise what it stores is
\* the body of a token response.
MockMarks == {"mock_flag", "mock_code"}

C19_MockExactlySkipsExchange ==
    /\ \A c \in CbProcs :
          /\ cb[c].pc = "mock_store" => cb[c].flags \cap MockMarks # {}
          /\ cb[c].pc \in {"post", "store"} => cb[c].flags \cap MockMarks = {}
    /\ (CallbackReturned /\ "delete" \in done.did) =>
          /\ "post" \notin done.did <=> done.flags \cap MockMarks # {}
          /\ done.flags \cap MockMarks # {} =>
                /\ done.res = "ok"
                /\ done.did = {"read", "delete", "write"}
                /\ done.ret = mock_token_data
                /\ get(done.ret, "access_token") =
                       <<"mock_access_token">>
          /\ (done.flags \cap MockMarks = {} /\ done.res = "ok") =>
                /\ done.ret \in TokenBodies
                /\ done.ret # mock_token_data

C19_Witness ==
    /\ CallbackReturned
    /\ done.flags \cap MockMarks = {"mock_flag"}
    /\ done.res = "ok"
    /\ done.ret = mock_token_data

\* C20: a credential blob is stored for a pair only if a callback naming
\* that pair presented the token that an authorize call for that same pair
\* had stored and that was still stored when the callback read it
\* (callbacks are the only writers of credentials).
C20_CredentialsOnlyAfterOwnState ==
    \A k \in DOMAIN store :
        store[k].by[1] = "cb" =>
            \E s \in issued :
                /\ s.state = store[k].by[2]
                /\ <<s.org_id, s.user_id>> = store[k].owner

GetItemsReturned == done.op = "get_items"
MapItemReturned == done.op = "map_item"

\* the credentials carry an access token other than the mock one
NonMockToken(credentials) ==
    /\ credentials.valid
    /\ ~Falsy(get(credentials.obj, "access_token"))
    /\ get(credentials.obj, "access_token") # <<"mock_access_token">>

HasStatus(response, status_code) ==
    response.kind = "status" /\ response.status_code = status_code

\* the records of the collection of a 200 answer
ResultsOf(response) ==
    IF HasStatus(response, 200) /\ "results" \in DOMAIN response.json
    THEN response.json.results ELSE <<>>

\* the list holds, from position `offset` on, the records mapped one by one
\* to items of the given type
HoldsMapped(items, offset, results, item_type) ==
    \A i \in 1..Len(results) :
        items[offset + i] =
            create_integration_item_metadata_object(results[i], item_type)

\* C13: with a non-mock access token, a 401 on the contacts fetch aborts the
\* whole call with the authentication failure: no items, companies and
\* deals not fetched, whatever they would have answered; a non-200 status
\* on companies alone aborts nothing: all three fetches are made and the
\* items of contacts and deals are returned.
C13_ContactsUnauthorizedAborts ==
    (GetItemsReturned /\ NonMockToken(done.credentials)) =>
        /\ HasStatus(done.contacts_response, 401) =>
              /\ done.result.res = ErrUnauthorized
              /\ done.result.items = <<>>
              /\ done.result.requested = <<"contacts">>
        /\ (/\ ~HasStatus(done.contacts_response, 401)
            /\ done.companies_response.kind = "status"
            /\ done.companies_response.status_code # 200) =>
              /\ done.result.res = "ok"
              /\ done.result.requested = <<"contacts", "companies", "deals">>
              /\ Len(done.result.items) =
                     Len(ResultsOf(done.contacts_response))
                     + Len(ResultsOf(done.deals_response))
              /\ HoldsMapped(done.result.items, 0,
                             ResultsOf(done.contacts_response), "Contact")
              /\ HoldsMapped(done.result.items,
                             Len(ResultsOf(done.contacts_response)),
                             ResultsOf(done.deals_response), "Deal")

C13_Witness ==
    /\ GetItemsReturned
    /\ NonMockToken(done.credentials)
    /\ HasStatus(done.contacts_response, 401)
    /\ Len(ResultsOf(done.companies_response)) > 0
    /\ Len(ResultsOf(done.deals_response)) > 0
    /\ done.result.res = ErrUnauthorized

\* C14: with a non-mock access token, when the contacts fetch does not end
\* in a 401, all three fetches are made whichever of them fails in
\* transport, and the list returned is the concatenation, in the order
\* contacts, companies, deals, of the records of the fetches answered with
\* status 200, each record mapped once and in the order of its collection.
C14_ConcatenationOfSuccessfulFetches ==
    (/\ GetItemsReturned
     /\ NonMockToken(done.credentials)
     /\ ~HasStatus(done.contacts_response, 401)) =>
        LET contacts == ResultsOf(done.contacts_response)
            companies == ResultsOf(done.companies_response)
            deals == ResultsOf(done.deals_response)
            items == done.result.items
        IN /\ done.result.res = "ok"
           /\ done.result.requested = <<"contacts", "companies", "deals">>
           /\ Len(items) = Len(contacts) + Len(companies) + Len(deals)
           /\ HoldsMapped(items, 0, contacts, "Contact")
           /\ HoldsMapped(items, Len(contacts), companies, "Company")
           /\ HoldsMapped(items, Len(contacts) + Len(companies), deals, "Deal")

C14_Witness ==
    /\ GetItemsReturned
    /\ NonMockToken(done.credentials)
    /\ done.contacts_response.kind = "RequestError"
    /\ Len(ResultsOf(done.companies_response)) = 2
    /\ Len(ResultsOf(done.deals_response)) = 1
    /\ Len(done.result.items) = 3
    /\ done.result.items[1].type = "Company"
    /\ done.result.items[3].type = "Deal"

\* the sequence `part` occurs in the sequence s
Contains(s, part) ==
    \E i \in 0..(Len(s) - Len(part)) : SubSeq(s, i + 1, i + Len(part)) = part

\* the field is an integer of epoch milliseconds
IsInteger(response_json, key) ==
    key \in DOMAIN response_json /\ response_json[key].t = "int"

\* C15: the record {id: 42, properties: {firstname: "A", lastname: "B"},
\* createdAt: 0} mapped as a Contact gets the name "A B", a creation_time
\* that is set and is the start of the epoch, and a url that contains "42";
\* and every createdAt or updatedAt that is an integer, 0 included, is
\* converted to a set timestamp of that instant.
C15_EpochStartIsSet ==
    MapItemReturned =>
        /\ IsInteger(done.response_json, "createdAt") =>
               done.item.creation_time =
                   [set |-> TRUE, ms |-> done.response_json.createdAt.n]
        /\ IsInteger(done.response_json, "updatedAt") =>
               done.item.last_modified_time =
                   [set |-> TRUE, ms |-> done.response_json.updatedAt.n]
        /\ (/\ done.item_type = "Contact"
            /\ done.response_json =
                   [id |-> JInt(42),
                    properties |-> [firstname |-> JStr(<<"A">>),
                                    lastname |-> JStr(<<"B">>)],
                    createdAt |-> JInt(0)]) =>
               /\ done.item.name = JStr(<<"A", " ", "B">>)
               /\ done.item.creation_time = [set |-> TRUE, ms |-> 0]
               /\ Contains(done.item.url, <<"4", "2">>)

\* s without the spaces before its first and after its last other character
Trimmed(s) ==
    LET inked == {i \in 1..Len(s) : s[i] # " "}
    IN IF inked = {} THEN <<>>
       ELSE SubSeq(s, CHOOSE i \in inked : \A j \in inked : i <= j,
                      CHOOSE i \in inked : \A j \in inked : j <= i)

\* the text of a property, empty when the record does not have it
PropertyText(response_json, key) ==
    IF /\ "properties" \in DOMAIN response_json
       /\ key \in DOMAIN response_json.properties
    THEN response_json.properties[key].s ELSE <<>>

HasProperty(response_json, key) ==
    /\ "properties" \in DOMAIN response_json
    /\ key \in DOMAIN response_json.properties

\* C16: the name of a mapped item: for a Contact the trimmed "first last"
\* when that is not empty, else the email property when the record has
\* one, else "Contact {id}"; for a Company the name property, else
\* "Company {id}"; for a Deal the dealname property, else "Deal {id}"; for
\* any other type "{type} {id}".
C16_NameDerivation ==
    MapItemReturned =>
        LET r == done.response_json
            id == done.item.id
            full == Trimmed(PropertyText(r, "firstname") \o <<" ">>
                            \o PropertyText(r, "lastname"))
            fallback(key, word) ==
                IF HasProperty(r, key) THEN r.properties[key]
                ELSE JStr(<<word, " ">> \o id)
        IN done.item.name =
              CASE done.item_type = "Contact" ->
                      IF full # <<>> THEN JStr(full)
                      ELSE fallback("email", "Contact")
                [] done.item_type = "Company" -> fallback("name", "Company")
                [] done.item_type = "Deal" -> fallback("dealname", "Deal")
                [] OTHER -> JStr(<<done.item_type, " ">> \o id)

C16_Witness ==
    /\ MapItemReturned
    /\ done.item_type = "Contact"
    /\ PropertyText(done.response_json, "firstname") = <<" ">>
    /\ ~HasProperty(done.response_json, "lastname")
    /\ HasProperty(done.response_json, "email")
    /\ done.item.name = done.response_json.properties.email

\* C17: with credentials whose access token is "mock_access_token" no fetch
\* is made and exactly four items are returned: two of type Contact, then a
\* Company, then a Deal, with the ids "1001", "1002", "2001", "3001".
C17_MockItems ==
    (/\ GetItemsReturned
     /\ done.credentials.valid
     /\ get(done.credentials.obj, "access_token") = <<"mock_access_token">>) =>
        /\ done.result.res = "ok"
        /\ done.result.requested = <<>>
        /\ Len(done.result.items) = 4
        /\ [i \in 1..4 |-> done.result.items[i].type] =
               <<"Contact", "Contact", "Company", "Deal">>
        /\ [i \in 1..4 |-> done.result.items[i].id] =
               <<<<"1001">>, <<"1002">>, <<"2001">>, <<"3001">>>>

C17_Witness ==
    /\ GetItemsReturned
    /\ done.credentials.kind = "str"
    /\ done.credentials.valid
    /\ done.credentials.obj = mock_token_data
    /\ HasStatus(done.contacts_response, 401)
    /\ Len(done.result.items) = 4

=============================================================================
